---- MODULE Spec2Model ----
(***************************************************************************)
(* Ownership-scoped note store and account registry of task-manager.       *)
(*                                                                         *)
(* The business logic is translated from the helpers of                    *)
(* src/backend/api/tests/test_api.py (get_user_notes, create_note,         *)
(* validate_note_data, create_note_flow, delete_note_flow,                 *)
(* validate_username, process_user_data).  The persistence layer (row      *)
(* insertion, identifier assignment, the username lookup) is not part of   *)
(* the sources; it is modelled from the specification and is marked so.    *)
(*                                                                         *)
(* Strings are sequences of one-character strings.                         *)
(***************************************************************************)
EXTENDS Integers, Sequences, FiniteSets

VARIABLES
    users,      \* persisted User rows, in insertion order
    notes,      \* persisted Note rows, in insertion order (available_notes)
    nextId,     \* next Note identifier the store hands out
    creator,    \* history: stored note id -> id of the requester whose create made it
    created,    \* history: every identifier a stored note was ever given
    deleted,    \* history: <<user, id>> of every successful delete
    listed,     \* history: user id -> listing seen since the last create/delete
    last        \* the last request handled, its result, and the stores before it

vars == <<users, notes, nextId, creator, created, deleted, listed, last>>

----------------------------------------------------------------------------
(* Bounds and input sets *)

\* Number of notes ever created in one behaviour.
MaxCreates == 2

\* Length of the alternative stores compared by the delete non-interference property.
MaxOther == 2

Rep(c, n) == [i \in 1..n |-> c]

\* str.strip() removes these from both ends.
Whitespace == {" ", "\t", "\n"}

\* Characters for which str.isalnum() is true, among those the inputs use.
AlnumChars == {"a", "b", "1"}

MinUsernameLen == 3
MaxUsernameLen == 20
MockId == 100

Usernames ==
    { <<>>, Rep("a", 2), <<"a", "b", "1">>, <<"a", "_", "b">>,
      Rep("a", 19) \o <<"1">>, Rep("a", 21) }

Passwords == { <<"p", "w">> }

Titles == { <<" ">>, <<"a">>, <<" ", "a">> }

Contents == { <<"\n", " ">>, <<"c">> }

\* The key sets of the payloads sent: a key left out is a missing field.
PayloadShapes ==
    { {}, {"title"}, {"content"}, {"title", "content"}, {"title", "content", "author"} }

\* The author a payload may carry.
PayloadAuthors == {1}

----------------------------------------------------------------------------
(* Pure helpers *)

\* str.strip(): drop leading, then trailing, whitespace.
RECURSIVE lstrip(_)
lstrip(s) ==
    IF s # <<>> /\ Head(s) \in Whitespace THEN lstrip(Tail(s)) ELSE s

RECURSIVE rstrip(_)
rstrip(s) ==
    IF s # <<>> /\ s[Len(s)] \in Whitespace
    THEN rstrip(SubSeq(s, 1, Len(s) - 1))
    ELSE s

strip(s) == rstrip(lstrip(s))

\* str.isalnum(): non-empty and every character alphanumeric.
isalnum(s) == Len(s) > 0 /\ \A i \in 1..Len(s) : s[i] \in AlnumChars

\* dict.get(key, default)
Get(data, key, default) == IF key \in DOMAIN data THEN data[key] ELSE default

Restrict(f, D) == [k \in D |-> f[k]]

Range(s) == { s[i] : i \in 1..Len(s) }

NoErrors == [k \in {} |-> <<>>]

Put(d, k, v) == [x \in (DOMAIN d) \cup {k} |-> IF x = k THEN v ELSE d[x]]

----------------------------------------------------------------------------
(* Business logic, as the helpers compute it *)

\* Listing without the ownership filter.
get_user_notes_unfiltered(user, all_notes) == all_notes

\* [note for note in all_notes if note.author_id == user.id]
get_user_notes(user, all_notes) ==
    SelectSeq(all_notes, LAMBDA note : note.author_id = user.id)

can_user_access_note(user, note_id, all_notes) ==
    LET accessible_notes == SelectSeq(all_notes, LAMBDA n : n.author_id = user.id)
    IN  \E i \in 1..Len(accessible_notes) : accessible_notes[i].id = note_id

\* The note object built from the requester and the data; its id is a placeholder
\* until the store assigns one.
create_note(user, data) ==
    [ title     |-> data["title"],
      content   |-> data["content"],
      author_id |-> user.id,
      id        |-> MockId ]

\* Validation that tests for the empty string without trimming.
validate_note_data_untrimmed(data) ==
    LET errors0 == NoErrors
        errors1 == IF Get(data, "title", <<>>) = <<>>
                   THEN Put(errors0, "title", <<"Title is required">>)
                   ELSE errors0
        errors2 == IF Get(data, "content", <<>>) = <<>>
                   THEN Put(errors1, "content", <<"Content is required">>)
                   ELSE errors1
    IN  [ is_valid |-> (DOMAIN errors2 = {}), errors |-> errors2 ]

validate_note_data(data) ==
    LET errors0 == NoErrors
        errors1 == IF strip(Get(data, "title", <<>>)) = <<>>
                   THEN Put(errors0, "title", <<"Title is required">>)
                   ELSE errors0
        errors2 == IF strip(Get(data, "content", <<>>)) = <<>>
                   THEN Put(errors1, "content", <<"Content is required">>)
                   ELSE errors1
    IN  [ is_valid |-> (DOMAIN errors2 = {}), errors |-> errors2 ]

all_fields == {"id", "title", "content", "author", "created_at"}

read_only_fields == {"id", "created_at", "author"}

writable_fields == { f \in all_fields : f \notin read_only_fields }

\* The serializer over a payload: its verdict, its errors, and the validated data,
\* which hold the writable fields only.
serializer(data) ==
    LET v == validate_note_data(data)
    IN  [ initial_data   |-> data,
          is_valid       |-> v.is_valid,
          errors         |-> v.errors,
          validated_data |-> Restrict(data, (DOMAIN data) \cap writable_fields) ]

\* Creation that takes the author the payload carries, when it carries one.
create_note_flow_payload_author(request_user, ser) ==
    IF ser.is_valid
    THEN [ success |-> TRUE,
           note    |-> Put(ser.validated_data, "author",
                           IF "author" \in DOMAIN ser.initial_data
                           THEN [id |-> ser.initial_data["author"]]
                           ELSE request_user),
           errors  |-> NoErrors ]
    ELSE [ success |-> FALSE, note |-> NoErrors, errors |-> ser.errors ]

\* serializer.save(author=request.user): the author is set from the request.
create_note_flow(request_user, ser) ==
    IF ser.is_valid
    THEN [ success |-> TRUE,
           note    |-> Put(ser.validated_data, "author", request_user),
           errors  |-> NoErrors ]
    ELSE [ success |-> FALSE, note |-> NoErrors, errors |-> ser.errors ]

\* list.remove(x): drop the first element equal to x.
RECURSIVE remove(_, _)
remove(lst, x) ==
    IF lst = <<>> THEN <<>>
    ELSE IF Head(lst) = x THEN Tail(lst)
    ELSE <<Head(lst)>> \o remove(Tail(lst), x)

\* Deletion that removes every note of the requester, not the one matched.
delete_note_flow_whole_queryset(user, note_id, available_notes) ==
    LET user_notes == SelectSeq(available_notes, LAMBDA n : n.author_id = user.id)
        matching   == SelectSeq(user_notes, LAMBDA n : n.id = note_id)
    IN  IF matching # <<>>
        THEN [ success |-> TRUE, message |-> "Note deleted",
               notes   |-> SelectSeq(available_notes,
                                     LAMBDA n : n.author_id # user.id) ]
        ELSE [ success |-> FALSE, message |-> "Note not found",
               notes   |-> available_notes ]

\* Deletion that reports success and removes nothing.
delete_note_flow_keeps_note(user, note_id, available_notes) ==
    LET user_notes == SelectSeq(available_notes, LAMBDA n : n.author_id = user.id)
        matching   == SelectSeq(user_notes, LAMBDA n : n.id = note_id)
    IN  IF matching # <<>>
        THEN [ success |-> TRUE, message |-> "Note deleted",
               notes   |-> available_notes ]
        ELSE [ success |-> FALSE, message |-> "Note not found",
               notes   |-> available_notes ]

\* Deletion that looks the identifier up among all notes, not the requester's.
delete_note_flow_any_owner(user, note_id, available_notes) ==
    LET matching == SelectSeq(available_notes, LAMBDA n : n.id = note_id)
    IN  IF matching # <<>>
        THEN [ success |-> TRUE, message |-> "Note deleted",
               notes   |-> remove(available_notes, Head(matching)) ]
        ELSE [ success |-> FALSE, message |-> "Note not found",
               notes   |-> available_notes ]

delete_note_flow(user, note_id, available_notes) ==
    LET user_notes == SelectSeq(available_notes, LAMBDA n : n.author_id = user.id)
        matching   == SelectSeq(user_notes, LAMBDA n : n.id = note_id)
    IN  IF matching # <<>>
        THEN [ success |-> TRUE, message |-> "Note deleted",
               notes   |-> remove(available_notes, Head(matching)) ]
        ELSE [ success |-> FALSE, message |-> "Note not found",
               notes   |-> available_notes ]

\* Validation whose lower length test is off by one.
validate_username_off_by_one(username) ==
    LET errors0 == <<>>
        errors1 == IF Len(username) <= MinUsernameLen
                   THEN Append(errors0, "Username too short") ELSE errors0
        errors2 == IF Len(username) > MaxUsernameLen
                   THEN Append(errors1, "Username too long") ELSE errors1
        errors3 == IF ~ isalnum(username)
                   THEN Append(errors2, "Username must be alphanumeric") ELSE errors2
    IN  [ is_valid |-> (Len(errors3) = 0), errors |-> errors3 ]

validate_username(username) ==
    LET errors0 == <<>>
        errors1 == IF Len(username) < MinUsernameLen
                   THEN Append(errors0, "Username too short") ELSE errors0
        errors2 == IF Len(username) > MaxUsernameLen
                   THEN Append(errors1, "Username too long") ELSE errors1
        errors3 == IF ~ isalnum(username)
                   THEN Append(errors2, "Username must be alphanumeric") ELSE errors2
    IN  [ is_valid |-> (Len(errors3) = 0), errors |-> errors3 ]

process_user_data(data) ==
    IF "password" \in DOMAIN data
    THEN [data EXCEPT !["password"] = <<"hashed_">> \o @]
    ELSE data

----------------------------------------------------------------------------
(* Persistence, from the specification *)

\* A lookup that never finds the username.
username_exists_never(all_users, username) == FALSE

\* lookup(User, by username)
username_exists(all_users, username) ==
    \E i \in 1..Len(all_users) : all_users[i].username = username

\* insert(User): the store assigns the identifier.
insert_user(all_users, data) ==
    Append(all_users, [ id       |-> Len(all_users) + 1,
                        username |-> data.username,
                        password |-> data.password ])

\* An insert that numbers the new row by the count of the rows stored.
insert_note_by_count(all_notes, note, id) ==
    Append(all_notes, [note EXCEPT !.id = Len(all_notes) + 1])

\* insert(Note): the store assigns the next identifier, never one used before.
insert_note(all_notes, note, id) ==
    Append(all_notes, [note EXCEPT !.id = id])

----------------------------------------------------------------------------
(* Derived input sets *)

ValidUsernames == { u \in Usernames : validate_username(u).is_valid }

AllUserIds == 1..Cardinality(ValidUsernames)

NoteIds == 1..(MaxCreates + 1)

Payloads ==
    { Restrict(full, D) :
        full \in [title : Titles, content : Contents, author : PayloadAuthors],
        D \in PayloadShapes }

Unseen == [seen |-> FALSE, listing |-> <<>>]

NoPrev ==
    [ notes |-> <<>>, users |-> <<>>, creator |-> [i \in {} |-> 0],
      created |-> {}, deleted |-> {} ]

NoRequest ==
    [ op |-> "none", user |-> 0, note_id |-> 0, data |-> NoErrors, username |-> <<>>,
      success |-> FALSE, message |-> "", errors |-> NoErrors, listing |-> <<>>,
      prevListed |-> Unseen, prev |-> NoPrev ]

----------------------------------------------------------------------------
(* State machine *)

Init ==
    /\ users = <<>>
    /\ notes = <<>>
    /\ nextId = 1
    /\ creator = [i \in {} |-> 0]
    /\ created = {}
    /\ deleted = {}
    /\ listed = [u \in AllUserIds |-> Unseen]
    /\ last = NoRequest

\* The request record r, with the stores as they are before it is handled.
Snapshot(r) ==
    [r EXCEPT !.prev = [ notes |-> notes, users |-> users, creator |-> creator,
                         created |-> created, deleted |-> deleted ]]

StoredIds(all_notes) == { all_notes[i].id : i \in 1..Len(all_notes) }

\* POST /register
Register(username, password) ==
    LET v    == validate_username(username)
        dup  == username_exists(users, username)
        data == process_user_data([username |-> username, password |-> password])
        ok   == v.is_valid /\ ~ dup
        errs == IF ~ v.is_valid THEN [k \in {"username"} |-> v.errors]
                ELSE IF dup
                THEN [k \in {"username"} |->
                        <<"A user with that username already exists.">>]
                ELSE NoErrors
    IN  /\ users' = IF ok THEN insert_user(users, data) ELSE users
        /\ last' = Snapshot([NoRequest EXCEPT !.op = "register",
                                !.username = username,
                                !.success = ok, !.errors = errs])
        /\ UNCHANGED <<notes, nextId, creator, created, deleted, listed>>

\* A listing that consumes the rows it returns.
ListNotesDraining(u) ==
    LET result == get_user_notes(users[u], notes)
    IN  /\ listed' = [listed EXCEPT ![u] = [seen |-> TRUE, listing |-> result]]
        /\ notes' = SelectSeq(notes, LAMBDA n : n \notin Range(result))
        /\ last' = Snapshot([NoRequest EXCEPT !.op = "list", !.user = u,
                                !.success = TRUE, !.listing = result,
                                !.prevListed = listed[u]])
        /\ UNCHANGED <<users, nextId, creator, created, deleted>>

\* GET /notes
ListNotes(u) ==
    LET result == get_user_notes(users[u], notes)
    IN  /\ listed' = [listed EXCEPT ![u] = [seen |-> TRUE, listing |-> result]]
        /\ last' = Snapshot([NoRequest EXCEPT !.op = "list", !.user = u,
                                !.success = TRUE, !.listing = result,
                                !.prevListed = listed[u]])
        /\ UNCHANGED <<users, notes, nextId, creator, created, deleted>>

\* POST /notes
CreateNote(u, data) ==
    LET flow   == create_note_flow(users[u], serializer(data))
        stored == insert_note(notes, create_note(flow.note["author"], flow.note), nextId)
        new_id == stored[Len(stored)].id
    IN  /\ flow.success => nextId <= MaxCreates
        /\ IF flow.success
           THEN /\ notes' = stored
                /\ nextId' = nextId + 1
                /\ creator' = Put(creator, new_id, u)
                /\ created' = created \cup {new_id}
           ELSE UNCHANGED <<notes, nextId, creator, created>>
        /\ listed' = [x \in AllUserIds |-> Unseen]
        /\ last' = Snapshot([NoRequest EXCEPT !.op = "create", !.user = u,
                                !.data = data, !.success = flow.success,
                                !.note_id = IF flow.success THEN new_id ELSE 0,
                                !.errors = flow.errors])
        /\ UNCHANGED <<users, deleted>>

\* DELETE /notes/{id}
DeleteNote(u, note_id) ==
    LET flow == delete_note_flow(users[u], note_id, notes)
    IN  /\ notes' = flow.notes
        /\ deleted' = IF flow.success THEN deleted \cup {<<u, note_id>>} ELSE deleted
        /\ creator' = Restrict(creator, StoredIds(flow.notes))
        /\ listed' = [x \in AllUserIds |-> Unseen]
        /\ last' = Snapshot([NoRequest EXCEPT !.op = "delete", !.user = u,
                                !.note_id = note_id, !.success = flow.success,
                                !.message = flow.message])
        /\ UNCHANGED <<users, nextId, created>>

Next ==
    \/ \E username \in Usernames, password \in Passwords : Register(username, password)
    \/ \E u \in 1..Len(users) : ListNotes(u)
    \/ \E u \in 1..Len(users), data \in Payloads : CreateNote(u, data)
    \/ \E u \in 1..Len(users), note_id \in NoteIds : DeleteNote(u, note_id)

Spec == Init /\ [][Next]_vars

----------------------------------------------------------------------------
(* Properties *)

\* The stored notes whose create was requested by user u.
OwnedBy(u, all_notes, who) ==
    { n \in Range(all_notes) : who[n.id] = u }

\* C1: in every reachable state, for every user U, list(U) is exactly the stored
\* notes that U created: the listing of each user, and the result of every list
\* request handled, hold no note created by another user and miss none of U's.
C1_ListReturnsExactlyOwnNotes ==
    /\ \A u \in 1..Len(users) :
          Range(get_user_notes(users[u], notes)) = OwnedBy(u, notes, creator)
    /\ last.op = "list" =>
          /\ Range(last.listing) = OwnedBy(last.user, notes, creator)
          /\ Len(last.listing) = Cardinality(OwnedBy(last.user, notes, creator))

\* A list request answered with a note while another user's note is stored.
C1_Witness ==
    /\ last.op = "list"
    /\ last.listing # <<>>
    /\ \E n \in Range(notes) : creator[n.id] # last.user

\* C2: a delete by U1 of a stored note that U2 # U1 created reports not found and
\* leaves the note store as it was; the note is still listed for U2.
C2_ForeignDeleteNotFound ==
    last.op = "delete" =>
        \A n \in Range(last.prev.notes) :
            (n.id = last.note_id /\ last.prev.creator[n.id] # last.user) =>
                /\ ~ last.success
                /\ last.message = "Note not found"
                /\ notes = last.prev.notes
                /\ n \in Range(get_user_notes(users[last.prev.creator[n.id]], notes))
                /\ ~ can_user_access_note(users[last.user], n.id, last.prev.notes)
                /\ can_user_access_note(users[last.prev.creator[n.id]], n.id, notes)

\* A delete aimed at a note another user created.
C2_Witness ==
    /\ last.op = "delete"
    /\ \E n \in Range(last.prev.notes) :
          n.id = last.note_id /\ last.prev.creator[n.id] # last.user

\* C3: a successful create by U appends one note whose owner is U, whatever
\* author the payload carries.
C3_CreateOwnerIsRequester ==
    (last.op = "create" /\ last.success) =>
        /\ Len(notes) = Len(last.prev.notes) + 1
        /\ SubSeq(notes, 1, Len(last.prev.notes)) = last.prev.notes
        /\ notes[Len(notes)].author_id = users[last.user].id
        /\ notes[Len(notes)].title = last.data["title"]
        /\ notes[Len(notes)].content = last.data["content"]

\* A successful create whose payload names another user as the author.
C3_Witness ==
    /\ last.op = "create"
    /\ last.success
    /\ "author" \in DOMAIN last.data
    /\ last.data["author"] # users[last.user].id

\* C4: delete is one-shot.  A delete by U of a stored note that U created succeeds
\* and removes it; a delete by U of an identifier that an earlier delete by U
\* removed reports not found and changes nothing, whatever happened in between.
C4_DeleteOneShot ==
    last.op = "delete" =>
        /\ (\E n \in Range(last.prev.notes) :
                n.id = last.note_id /\ last.prev.creator[n.id] = last.user) =>
              /\ last.success
              /\ last.note_id \notin StoredIds(notes)
              /\ <<last.user, last.note_id>> \in deleted
        /\ <<last.user, last.note_id>> \in last.prev.deleted =>
              /\ ~ last.success
              /\ last.message = "Note not found"
              /\ notes = last.prev.notes

\* A second delete of a removed note, after a later create put a note in the store.
C4_Witness ==
    /\ last.op = "delete"
    /\ <<last.user, last.note_id>> \in last.prev.deleted
    /\ \E n \in Range(notes) : n.id > last.note_id

\* The usernames of the stored users are pairwise different.
UsernamesUnique ==
    \A i, j \in 1..Len(users) : users[i].username = users[j].username => i = j

HeldIn(all_users, username) ==
    \E i \in 1..Len(all_users) : all_users[i].username = username

\* C5 as stated: usernames are unique; a register of a username nobody holds
\* succeeds; a register of a held username fails on the username field and adds
\* no user.
C5_Original ==
    /\ UsernamesUnique
    /\ last.op = "register" =>
          /\ ~ HeldIn(last.prev.users, last.username) => last.success
          /\ HeldIn(last.prev.users, last.username) =>
                /\ ~ last.success
                /\ "username" \in DOMAIN last.errors
                /\ users = last.prev.users

\* The username passes the length and character rules.
WellFormedUsername(username) ==
    /\ Len(username) >= 3
    /\ Len(username) <= 20
    /\ \A i \in 1..Len(username) : username[i] \in AlnumChars

\* C5, amended: usernames are unique; a register of a well-formed username nobody
\* holds succeeds and adds exactly that user; a register of a held username fails
\* on the username field and adds no user.
C5_UsernamesUnique ==
    /\ UsernamesUnique
    /\ last.op = "register" =>
          /\ (WellFormedUsername(last.username)
                /\ ~ HeldIn(last.prev.users, last.username)) =>
                /\ last.success
                /\ Len(users) = Len(last.prev.users) + 1
                /\ SubSeq(users, 1, Len(last.prev.users)) = last.prev.users
                /\ users[Len(users)].username = last.username
          /\ HeldIn(last.prev.users, last.username) =>
                /\ ~ last.success
                /\ "username" \in DOMAIN last.errors
                /\ users = last.prev.users

\* A register of a username that a stored user holds.
C5_Witness ==
    /\ last.op = "register"
    /\ HeldIn(last.prev.users, last.username)
    /\ Len(users) = 2

\* The notes another user than u may own, as far as a delete can tell them apart.
ForeignNotes(u) ==
    { [ id |-> i, author_id |-> a, title |-> <<"a">>, content |-> <<"c">> ] :
        i \in NoteIds, a \in AllUserIds \ {u} }

RECURSIVE SeqsUpTo(_, _)
SeqsUpTo(S, n) ==
    IF n = 0 THEN { <<>> }
    ELSE LET shorter == SeqsUpTo(S, n - 1)
         IN  shorter \cup { Append(q, x) : q \in shorter, x \in S }

\* The stores that hold the same notes of u as all_notes, in the same order, and
\* any notes of other users before or after them.
AltStores(u, all_notes, who) ==
    LET own == SelectSeq(all_notes, LAMBDA n : who[n.id] = u)
    IN  UNION { { own \o others, others \o own } :
                    others \in SeqsUpTo(ForeignNotes(u), MaxOther) }

\* C6: the result of delete(U, id) is the same in every store that agrees with the
\* actual one on the notes of U, whatever notes of other users it holds; and a
\* delete of an identifier that is none of U's notes reports not found, whether
\* the identifier is unused or another user's.
C6_DeleteHidesForeignNotes ==
    last.op = "delete" =>
        /\ \A alt \in AltStores(last.user, last.prev.notes, last.prev.creator) :
              LET r == delete_note_flow(users[last.user], last.note_id, alt)
              IN  r.success = last.success /\ r.message = last.message
        /\ (~ \E n \in Range(last.prev.notes) :
                n.id = last.note_id /\ last.prev.creator[n.id] = last.user) =>
              (~ last.success /\ last.message = "Note not found")

\* A delete of another user's note, and a delete of an identifier no note carries.
C6_WitnessForeign ==
    /\ last.op = "delete"
    /\ ~ last.success
    /\ \E n \in Range(last.prev.notes) :
          n.id = last.note_id /\ last.prev.creator[n.id] # last.user

\* The string holds a character that is not whitespace.
NonBlank(str) == \E i \in 1..Len(str) : str[i] \notin Whitespace

\* The field of the payload, the empty string when the payload lacks it.
Field(data, key) == IF key \in DOMAIN data THEN data[key] ELSE <<>>

\* C7: a create succeeds exactly when title and content both hold a character
\* that is not whitespace; otherwise its errors name exactly the failing fields
\* and the note store is unchanged.
C7_CreateValidation ==
    last.op = "create" =>
        LET failing == { k \in {"title", "content"} : ~ NonBlank(Field(last.data, k)) }
        IN  /\ last.success <=> failing = {}
            /\ last.success => Len(notes) = Len(last.prev.notes) + 1
            /\ ~ last.success =>
                  /\ DOMAIN last.errors = failing
                  /\ notes = last.prev.notes

\* A create refused for a title of whitespace only, with both fields present.
C7_Witness ==
    /\ last.op = "create"
    /\ ~ last.success
    /\ {"title", "content"} \subseteq DOMAIN last.data
    /\ last.data["title"] # <<>>
    /\ DOMAIN last.errors = {"title"}

\* C8: a register is refused, with no user added, when the username is shorter
\* than 3, longer than 20 or holds a character that is not alphanumeric; and
\* validation accepts every other username, so that such a register fails only
\* when the username is held.
C8_UsernameValidation ==
    last.op = "register" =>
        /\ validate_username(last.username).is_valid
              <=> WellFormedUsername(last.username)
        /\ ~ WellFormedUsername(last.username) =>
              /\ ~ last.success
              /\ "username" \in DOMAIN last.errors
              /\ users = last.prev.users
        /\ WellFormedUsername(last.username) =>
              (last.success <=> ~ HeldIn(last.prev.users, last.username))

\* A register refused for a username of 21 characters, after one of 20 was accepted.
C8_Witness ==
    /\ last.op = "register"
    /\ ~ last.success
    /\ Len(last.username) = 21
    /\ \E i \in 1..Len(users) : Len(users[i].username) = 20

\* C9: a list request changes neither store, and returns the same set of notes
\* as the previous list request of the same user when no create or delete was
\* handled between the two.
C9_ListIsPure ==
    last.op = "list" =>
        /\ notes = last.prev.notes
        /\ users = last.prev.users
        /\ last.prevListed.seen =>
              Range(last.listing) = Range(last.prevListed.listing)

\* A second list request of a user, answered with a note, a register in between.
C9_Witness ==
    /\ last.op = "list"
    /\ last.prevListed.seen
    /\ last.listing # <<>>
    /\ \E u \in AllUserIds : u # last.user /\ listed[u].seen

C11_DeleteRemovesExactlyOne ==
    (last.op = "delete" /\ last.success) =>
        /\ Cardinality({ i \in 1..Len(last.prev.notes) :
                            /\ last.prev.notes[i].id = last.note_id
                            /\ last.prev.creator[last.note_id] = last.user }) = 1
        /\ Len(notes) = Len(last.prev.notes) - 1
        /\ notes = SelectSeq(last.prev.notes, LAMBDA n : n.id # last.note_id)
        /\ \A n \in Range(last.prev.notes) :
              n.id # last.note_id => n \in Range(notes)
        /\ users = last.prev.users

\* A successful delete that leaves another note of the same user in the store.
C11_Witness ==
    /\ last.op = "delete"
    /\ last.success
    /\ \E n \in Range(notes) : creator[n.id] = last.user

\* A successful delete that leaves a note of another user in the store.
C11_WitnessForeign ==
    /\ last.op = "delete"
    /\ last.success
    /\ \E n \in Range(notes) : creator[n.id] # last.user

====
